---- MODULE Spec2Model ----
(***************************************************************************)
(* Dynamic-programming engines of aug/seq/seq.py:                          *)
(*   - rna_structure_prediction / _rna_structure_reconstruct_answer        *)
(*   - failure_array                                                       *)
(*   - align / edit_distance (with the scoring strategies of               *)
(*     aug.seq.alignments)                                                 *)
(* Python indices are kept 0-based; a Python string is a TLA+ sequence of  *)
(* one-character strings, so s[k] in Python is s[k + 1] here.              *)
(***************************************************************************)
EXTENDS Integers, Sequences, FiniteSets, TLC

VARIABLES
    rna, min_size, matrix, fill_n, fill_i, stack, structure, rna_result, rna_pc,
    prev_matrix, written, reads,
    dna, result, fa_i, fa_pc,
    entry, seq1, seq2, method, reconstruct_answer, swap_case_on_mismatch,
    distances, al_i, al_j, score, al_result, al_pc, al_calls,
    str_a, str_b, str_c, d_ab, d_bc, d_ac, tri_pc

\* written lists the cells the fill has written, in order; reads lists, for each
\* of them, the cells its computation read and the matrix it read them from;
\* prev_matrix is the matrix the last computation started from.
rnaHist == <<prev_matrix, written, reads>>
rnaVars == <<rna, min_size, matrix, fill_n, fill_i, stack, structure, rna_result, rna_pc, rnaHist>>
faVars == <<dna, result, fa_i, fa_pc>>
alVars == <<entry, seq1, seq2, method, reconstruct_answer, swap_case_on_mismatch,
            distances, al_i, al_j, score, al_result, al_pc, al_calls>>
triVars == <<str_a, str_b, str_c, d_ab, d_bc, d_ac, tri_pc>>
vars == <<rnaVars, faVars, alVars, triVars>>

(* The engines are independent; while one runs the others stay idle. *)
RnaIdle ==
    /\ rna = <<>> /\ min_size = 0 /\ matrix = <<>> /\ fill_n = 0 /\ fill_i = 0
    /\ stack = <<>> /\ structure = <<>> /\ rna_result = <<>> /\ rna_pc = "idle"
    /\ prev_matrix = <<>> /\ written = <<>> /\ reads = <<>>

FaIdle == dna = <<>> /\ result = <<>> /\ fa_i = 0 /\ fa_pc = "idle"

AlIdle ==
    /\ entry = "none" /\ seq1 = <<>> /\ seq2 = <<>> /\ method = <<>> /\ reconstruct_answer = FALSE
    /\ swap_case_on_mismatch = FALSE /\ distances = <<>> /\ al_i = 0 /\ al_j = 0
    /\ score = 0 /\ al_result = <<>> /\ al_pc = "idle" /\ al_calls = <<>>

TriIdle ==
    /\ str_a = <<>> /\ str_b = <<>> /\ str_c = <<>>
    /\ d_ab = 0 /\ d_bc = 0 /\ d_ac = 0 /\ tri_pc = "idle"

(* ---------------------------- bounds ----------------------------------- *)
MaxRnaLen == 4
MaxMinSize == 1
MaxDnaLen == 5
MaxSeqLen == 2
MaxTriLen == 2

(* --------------------------- helpers ----------------------------------- *)
SeqsUpTo(S, len) == UNION {[1..k -> S] : k \in 0..len}

Max2(x, y) == IF x >= y THEN x ELSE y

\* Python's ordering of two tuples of the same length: lexicographic.
TupleGt(a, b) ==
    \E p \in 1..Len(a) : a[p] > b[p] /\ \A q \in 1..(p - 1) : a[q] = b[q]

\* Python's max(a, b): the first argument unless the second is greater.
TupleMax2(a, b) == IF TupleGt(b, a) THEN b ELSE a

\* Python's max over a generator of pairwise different tuples.
TupleMaxOf(S) == CHOOSE t \in S : \A u \in S : ~TupleGt(u, t)

(* ======================== RNA structure engine ========================= *)
RnaLetters == {"A", "C", "G", "U"}
\* "N" stands for any symbol that is not a key of rna_to_int_map.
RnaInputLetters == RnaLetters \cup {"N"}

rna_to_int_map == [letter \in RnaLetters |->
    CASE letter = "A" -> 1 [] letter = "C" -> 2 [] letter = "G" -> 3 [] letter = "U" -> 4]

\* rna_int[k] of the source, k 0-based.
rna_int(r, k) == rna_to_int_map[r[k + 1]]

EmptyMatrix(len) == [c \in (0..(len - 1)) \X (0..(len - 1)) |-> <<0, 0, 0>>]

\* m1 of line 847: the better of skipping position i and skipping position j.
SkipCandidate(mx, i, j) ==
    TupleMax2(<<mx[<<i + 1, j>>][1], i + 1, j>>, <<mx[<<i, j - 1>>][1], i, j - 1>>)

complement_score_nocheck(r, mx, i, j) == mx[<<i + 1, j - 1>>][1] + 1

complement_score(r, mx, i, j) ==
    IF rna_int(r, i) + rna_int(r, j) = 5 THEN mx[<<i + 1, j - 1>>][1] + 1 ELSE 0

SimpleCandidate_pairOnTie(r, mx, i, j) ==
    LET m1 == SkipCandidate(mx, i, j)
        cs == complement_score(r, mx, i, j)
    IN  IF m1[1] > cs THEN m1 ELSE <<cs, i + 1, j - 1>>

\* m1 after line 850.
SimpleCandidate(r, mx, i, j) ==
    LET m1 == SkipCandidate(mx, i, j)
        cs == complement_score(r, mx, i, j)
    IN  IF m1[1] >= cs THEN m1 ELSE <<cs, i + 1, j - 1>>

BifurcationCandidate_overlap(mx, i, j) ==
    TupleMaxOf({<<mx[<<i, k>>][1] + mx[<<Max2(k - 1, i + 1), j>>][1], i, k, Max2(k - 1, i + 1), j>> :
                   k \in (i + 1)..j})

\* m2 of line 851.
BifurcationCandidate(mx, i, j) ==
    TupleMaxOf({<<mx[<<i, k>>][1] + mx[<<k, j>>][1], i, k, k, j>> : k \in (i + 1)..j})

CellValue_bifOnTie(r, mx, i, j) ==
    LET m1 == SimpleCandidate(r, mx, i, j)
        m2 == BifurcationCandidate(mx, i, j)
    IN  IF m1[1] > m2[1] THEN m1 ELSE m2

\* The value stored into matrix[i][j] at line 852.
CellValue(r, mx, i, j) ==
    LET m1 == SimpleCandidate(r, mx, i, j)
        m2 == BifurcationCandidate(mx, i, j)
    IN  IF m1[1] >= m2[1] THEN m1 ELSE m2

RnaInputs ==
    /\ rna \in SeqsUpTo(RnaInputLetters, MaxRnaLen)
    /\ min_size \in 0..MaxMinSize
    /\ matrix = <<>>
    /\ fill_n = 0 /\ fill_i = 0
    /\ stack = <<>> /\ structure = <<>> /\ rna_result = <<>>
    /\ prev_matrix = <<>> /\ written = <<>> /\ reads = <<>>
    /\ rna_pc = "start"

\* Lines 840-843: allocate the matrix, translate the letters, min_size += 1.
\* The dictionary lookup raises KeyError on a letter outside A, C, G, U.
HasInvalidLetter_firstonly(r) == Len(r) > 0 /\ r[1] \notin RnaLetters

\* Whether a lookup of line 842 fails.
HasInvalidLetter(r) == \E k \in 1..Len(r) : r[k] \notin RnaLetters

RnaStart ==
    /\ rna_pc = "start"
    /\ IF HasInvalidLetter(rna)
       THEN /\ rna_pc' = "raised"
            /\ UNCHANGED <<matrix, min_size>>
       ELSE /\ matrix' = EmptyMatrix(Len(rna))
            /\ min_size' = min_size + 1
            /\ rna_pc' = "fill"
    /\ fill_n' = 0 /\ fill_i' = 0
    /\ UNCHANGED <<rna, stack, structure, rna_result, rnaHist>>
    /\ UNCHANGED <<faVars, alVars, triVars>>

\* The cells whose value the expressions of lines 847-851 read to compute (i, j).
\* matrix[i + 1][j - 1] is read only when the ends are complementary (line 849);
\* the split k = j of line 851 reads matrix[i][j] itself and matrix[j][j].
ReadCells(r, i, j) ==
    {<<i + 1, j>>, <<i, j - 1>>}
    \cup (IF rna_int(r, i) + rna_int(r, j) = 5 THEN {<<i + 1, j - 1>>} ELSE {})
    \cup UNION {{<<i, k>>, <<k, j>>} : k \in (i + 1)..j}

\* The pair (n, i) the nested loops of lines 844-845 visit after (n, i);
\* n = Len(rna) stands for "both loops are over".
InLoop(len, ms, n, i) == n < len - ms /\ i < len - ms - n

NextLoop_iouter(len, ms, n, i) ==
    IF n + 1 < len - ms - i THEN <<n + 1, i>>
    ELSE IF i + 1 < len - ms THEN <<0, i + 1>>
    ELSE <<len, 0>>

NextLoop(len, ms, n, i) ==
    IF i + 1 < len - ms - n THEN <<n, i + 1>>
    ELSE IF n + 1 < len - ms /\ 0 < len - ms - (n + 1) THEN <<n + 1, 0>>
    ELSE <<len, 0>>

\* One iteration of the inner loop, lines 846-852.
RnaFillCell ==
    /\ rna_pc = "fill"
    /\ InLoop(Len(rna), min_size, fill_n, fill_i)
    /\ LET j == fill_i + min_size + fill_n
           nxt == NextLoop(Len(rna), min_size, fill_n, fill_i)
       IN  /\ matrix' = [matrix EXCEPT ![<<fill_i, j>>] = CellValue(rna, matrix, fill_i, j)]
           /\ fill_n' = nxt[1]
           /\ fill_i' = nxt[2]
           /\ prev_matrix' = matrix
           /\ written' = Append(written, <<fill_i, j>>)
           /\ reads' = Append(reads, [cells |-> ReadCells(rna, fill_i, j), before |-> matrix])
    /\ UNCHANGED <<rna, min_size, stack, structure, rna_result, rna_pc>>
    /\ UNCHANGED <<faVars, alVars, triVars>>

\* Line 853, first operand: the call _rna_structure_reconstruct_answer(matrix, 0, len(rna) - 1).
\* matrix[0] of an empty matrix raises IndexError.
RnaCallReconstruct ==
    /\ rna_pc = "fill"
    /\ ~InLoop(Len(rna), min_size, fill_n, fill_i)
    /\ IF Len(rna) = 0
       THEN rna_pc' = "raised" /\ UNCHANGED stack
       ELSE rna_pc' = "reconstruct" /\ stack' = <<<<0, Len(rna) - 1>>>>
    /\ UNCHANGED <<rna, min_size, matrix, fill_n, fill_i, structure, rna_result, rnaHist>>
    /\ UNCHANGED <<faVars, alVars, triVars>>

IsPairStep_left(sc, i, j) == sc[2] - 1 = i

\* Line 862: the step moved both indices inward by one.
IsPairStep(sc, i, j) == sc[2] - 1 = i /\ sc[3] + 1 = j

NextCell_keepj(sc, i, j) == <<sc[2], j>>

\* Lines 864-866: the cell the walk continues from.
NextCell(sc, i, j) == <<sc[2], sc[3]>>

\* One iteration of the while loop of lines 859-870 in the innermost active call,
\* or its return at line 871.  stack holds the (i, j) of the active call on top and
\* below it the calls still to be made; the pairs are appended in the order in
\* which the source concatenates them.
RnaReconstructStep ==
    /\ rna_pc = "reconstruct"
    /\ stack # <<>>
    /\ LET i == Head(stack)[1]
           j == Head(stack)[2]
           sc == matrix[<<i, j>>]
       IN  IF sc[1] = 0
           THEN /\ stack' = Tail(stack)
                /\ UNCHANGED structure
           ELSE IF Len(sc) = 3
           THEN /\ structure' = IF IsPairStep(sc, i, j)
                                THEN Append(structure, <<i, j>>)
                                ELSE structure
                /\ stack' = <<NextCell(sc, i, j)>> \o Tail(stack)
           ELSE /\ stack' = <<<<sc[2], sc[3]>>, <<sc[4], sc[5]>>>> \o Tail(stack)
                /\ UNCHANGED structure
    /\ UNCHANGED <<rna, min_size, matrix, fill_n, fill_i, rna_result, rna_pc, rnaHist>>
    /\ UNCHANGED <<faVars, alVars, triVars>>

AuxiliaryValue_second(mx, len) == mx[<<0, len - 1>>][3]

\* matrix[0][-1][1] of line 853.
AuxiliaryValue(mx, len) == mx[<<0, len - 1>>][2]

\* Line 853: the returned tuple (structure, matrix[0][-1][1]).
RnaReturn ==
    /\ rna_pc = "reconstruct"
    /\ stack = <<>>
    /\ rna_result' = <<structure, AuxiliaryValue(matrix, Len(rna))>>
    /\ rna_pc' = "done"
    /\ UNCHANGED <<rna, min_size, matrix, fill_n, fill_i, stack, structure, rnaHist>>
    /\ UNCHANGED <<faVars, alVars, triVars>>

(* ------------------------- RNA: claims --------------------------------- *)
\* min_size as the caller passed it (line 843 adds 1 to the local).
CallerMinSize == min_size - 1

Complementary(r, i, j) == rna_int(r, i) + rna_int(r, j) = 5

\* The candidate pairs of a string: complementary and more than ms apart.
PairCandidates(r, ms) ==
    {pr \in (0..(Len(r) - 1)) \X (0..(Len(r) - 1)) :
        pr[1] < pr[2] /\ pr[2] - pr[1] > ms /\ Complementary(r, pr[1], pr[2])}

Crossing(pr, qr) == pr[1] < qr[1] /\ qr[1] < pr[2] /\ pr[2] < qr[2]

IsStructure(S) ==
    \A pr \in S : \A qr \in S :
        pr # qr => /\ {pr[1], pr[2]} \cap {qr[1], qr[2]} = {}
                   /\ ~Crossing(pr, qr)

\* The largest number of pairs of any non-crossing matching of candidate pairs.
MaxPairing(r, ms) ==
    LET sizes == {Cardinality(S) : S \in {T \in SUBSET PairCandidates(r, ms) : IsStructure(T)}}
    IN  CHOOSE m \in sizes : \A k \in sizes : k <= m

\* C1: the returned pair list is a matching: no position index occurs in two
\* different returned pairs.
C1_Matching ==
    rna_pc = "done" =>
        \A p \in 1..Len(rna_result[1]) : \A q \in 1..Len(rna_result[1]) :
            p # q => {rna_result[1][p][1], rna_result[1][p][2]}
                     \cap {rna_result[1][q][1], rna_result[1][q][2]} = {}

\* C2: every returned pair (i, j) has i < j, j - i > min_size, and the symbols
\* at i and j are complementary (their codes sum to 5).
C2_PairsValid ==
    rna_pc = "done" =>
        \A p \in 1..Len(rna_result[1]) :
            LET i == rna_result[1][p][1]
                j == rna_result[1][p][2]
            IN  /\ i \in 0..(Len(rna) - 1) /\ j \in 0..(Len(rna) - 1)
                /\ i < j
                /\ j - i > CallerMinSize
                /\ rna_int(rna, i) + rna_int(rna, j) = 5

\* A finished call that returned two pairs, one found below a bifurcation.
C2_Witness ==
    /\ rna_pc = "done"
    /\ Len(rna_result[1]) >= 2
    /\ \E c \in DOMAIN matrix : Len(matrix[c]) = 5

\* C3: the number of returned pairs is the size of a maximum set of candidate
\* pairs that are pairwise non-crossing and use each position at most once.
C3_Maximum ==
    rna_pc = "done" => Len(rna_result[1]) = MaxPairing(rna, CallerMinSize)

\* C11: for an input over A, C, G, U that is shorter than min_size + 1 the call
\* does not raise and returns an empty pairing list.  min_size is compared after
\* line 843 has incremented it.
C11_ShortInputEmpty ==
    (rna_pc # "start" /\ (\A k \in 1..Len(rna) : rna[k] \in RnaLetters) /\ Len(rna) < min_size)
        => /\ rna_pc # "raised"
           /\ rna_pc = "done" => rna_result[1] = <<>>

\* C12: an input with a symbol outside A, C, G, U at any position makes the call
\* fail: it never leaves the start other than by raising, no result is returned,
\* and no matrix cell is ever filled.
C12_InvalidSymbolFails ==
    (\E k \in 1..Len(rna) : rna[k] \notin RnaLetters)
        => /\ rna_pc \in {"start", "raised"}
           /\ rna_result = <<>>
           /\ matrix = <<>>
           /\ written = <<>>

\* A call that raised on an input whose only invalid symbol is the last of several.
C12_Witness ==
    /\ rna_pc = "raised"
    /\ Len(rna) >= 2
    /\ rna[Len(rna)] \notin RnaLetters
    /\ \A k \in 1..(Len(rna) - 1) : rna[k] \in RnaLetters

\* How lines 847-852 decide the cell (i, j) of the matrix mx, stated on the four
\* competing values: a bifurcation needs a strictly greater value than the other
\* three, a pair a strictly greater value than both skips, and of two equal skips
\* the one that skips position i is kept (its tuple is the greater one).
Decision(r, mx, i, j) ==
    LET skip_i == mx[<<i + 1, j>>][1]
        skip_j == mx[<<i, j - 1>>][1]
        pair == IF Complementary(r, i, j) THEN mx[<<i + 1, j - 1>>][1] + 1 ELSE 0
        bif == CHOOSE v \in {mx[<<i, k>>][1] + mx[<<k, j>>][1] : k \in (i + 1)..j} :
                   \A k \in (i + 1)..j : mx[<<i, k>>][1] + mx[<<k, j>>][1] <= v
    IN  IF bif > Max2(Max2(skip_i, skip_j), pair) THEN "bifurcation"
        ELSE IF pair > Max2(skip_i, skip_j) THEN "pair"
        ELSE IF skip_i >= skip_j THEN "skip_i"
        ELSE "skip_j"

\* The top-level cell (0, n - 1) is the last cell the fill writes, if it writes any.
TopCell == <<0, Len(rna) - 1>>
TopCellFilled == written # <<>> /\ written[Len(written)] = TopCell

\* C13: for n >= 1 the second returned value is the first index of the backpointer
\* of cell (0, n - 1): 1 when the cell was decided by pairing (0, n - 1) or by
\* skipping position 0, and 0 when it was decided by skipping position n - 1, by a
\* bifurcation, or was never filled (base case); so it is always 0 or 1.
C13_Auxiliary ==
    rna_pc = "done" =>
        /\ rna_result[2] = matrix[TopCell][2]
        /\ rna_result[2] \in {0, 1}
        /\ written # <<>> => TopCellFilled
        /\ rna_result[2] = 1 <=>
               (TopCellFilled /\ Decision(rna, prev_matrix, 0, Len(rna) - 1) \in {"pair", "skip_i"})

\* A finished call on three or more symbols whose top-level cell was decided by a
\* pair and whose second returned value is 1.
C13_Witness ==
    /\ rna_pc = "done"
    /\ Len(rna) >= 3
    /\ TopCellFilled
    /\ Decision(rna, prev_matrix, 0, Len(rna) - 1) = "pair"
    /\ rna_result[2] = 1

\* The cell the fill wrote last, and the values that competed for it in the
\* matrix as it was before the write.
LastCell == written[Len(written)]
SkipValue(mx, i, j) == Max2(mx[<<i + 1, j>>][1], mx[<<i, j - 1>>][1])
PairValue(mx, i, j) == mx[<<i + 1, j - 1>>][1] + 1
BifurcationValue(mx, i, j) ==
    CHOOSE v \in {mx[<<i, k>>][1] + mx[<<k, j>>][1] : k \in (i + 1)..j} :
        \A k \in (i + 1)..j : mx[<<i, k>>][1] + mx[<<k, j>>][1] <= v

NonBifurcatingValue(r, mx, i, j) ==
    IF Complementary(r, i, j) THEN Max2(SkipValue(mx, i, j), PairValue(mx, i, j))
    ELSE SkipValue(mx, i, j)

\* C17: a cell stores a bifurcation backpointer only if the best bifurcation value
\* is strictly greater than the best non-bifurcating value; on equality the
\* non-bifurcating result is stored; and a stored bifurcation (i, k, k, j) never
\* has k = j.
C17_BifurcationStrict ==
    /\ written # <<>> =>
          LET i == LastCell[1]
              j == LastCell[2]
              bif == BifurcationValue(prev_matrix, i, j)
              nonbif == NonBifurcatingValue(rna, prev_matrix, i, j)
          IN  /\ Len(matrix[LastCell]) = 5 <=> bif > nonbif
              /\ bif = nonbif => Len(matrix[LastCell]) = 3 /\ matrix[LastCell][1] = nonbif
              /\ Len(matrix[LastCell]) = 5 => matrix[LastCell][1] = bif
    /\ \A c \in DOMAIN matrix :
          Len(matrix[c]) = 5 =>
              /\ matrix[c][2] = c[1] /\ matrix[c][5] = c[2]
              /\ matrix[c][3] = matrix[c][4]
              /\ matrix[c][3] \in (c[1] + 1)..(c[2] - 1)

\* A cell just filled with a bifurcation backpointer, after an earlier cell whose
\* candidates tied had kept its non-bifurcating backpointer.
C17_Witness ==
    /\ written # <<>>
    /\ Len(matrix[LastCell]) = 5
    /\ BifurcationValue(prev_matrix, LastCell[1], LastCell[2])
           > NonBifurcatingValue(rna, prev_matrix, LastCell[1], LastCell[2])
    /\ \E c \in DOMAIN matrix :
          /\ Len(matrix[c]) = 3 /\ matrix[c][1] > 0
          /\ \E k \in (c[1] + 1)..(c[2] - 1) :
                matrix[<<c[1], k>>][1] + matrix[<<k, c[2]>>][1] = matrix[c][1]

Span(c) == c[2] - c[1]

\* C18, as stated: the computation of a cell of span L reads only cells of span
\* less than L that already hold their final value, its own cell not being read,
\* and cells are written in non-decreasing span order.
C18_ReadsOnlyShorterSpans ==
    \A p \in 1..Len(written) :
        /\ \A rc \in reads[p].cells :
              Span(rc) < Span(written[p]) /\ reads[p].before[rc] = matrix[rc]
        /\ \A q \in 1..(p - 1) : Span(written[q]) <= Span(written[p])

\* C18, amended: apart from its own cell, which it reads while that cell still
\* holds the initial (0, 0, 0), the computation of a cell of span L reads only
\* cells of span less than L whose value then is the value they keep; every cell
\* is written once, in non-decreasing span order.
C18_ReadsShorterSpansAndSelf ==
    /\ Len(reads) = Len(written)
    /\ \A p \in 1..Len(written) :
          /\ \A rc \in reads[p].cells \ {written[p]} :
                Span(rc) < Span(written[p]) /\ reads[p].before[rc] = matrix[rc]
          /\ written[p] \in reads[p].cells
          /\ reads[p].before[written[p]] = <<0, 0, 0>>
          /\ \A q \in 1..(p - 1) :
                Span(written[q]) <= Span(written[p]) /\ written[q] # written[p]

\* A finished fill over three span lengths whose last computation read a cell
\* with a non-zero score.
C18_Witness ==
    /\ rna_pc \in {"reconstruct", "done"}
    /\ Len(written) >= 3
    /\ Span(written[1]) + 2 <= Span(LastCell)
    /\ \E rc \in reads[Len(reads)].cells : matrix[rc][1] > 0

\* What one iteration of the traceback does to the call on top of the stack: at a
\* score of 0 the call returns; a simple step continues at a cell of strictly
\* smaller span; a bifurcation (i, k, k, j) opens the calls for (i, k) and (k, j),
\* both of strictly smaller span.
TracebackStepShrinks ==
    (rna_pc = "reconstruct" /\ stack # <<>>) =>
        LET c == Head(stack)
            sc == matrix[c]
        IN  /\ sc[1] = 0 => stack' = Tail(stack)
            /\ (sc[1] # 0 /\ Len(sc) = 3) =>
                  /\ Len(stack') = Len(stack)
                  /\ Tail(stack') = Tail(stack)
                  /\ Span(Head(stack')) < Span(c)
            /\ (sc[1] # 0 /\ Len(sc) = 5) =>
                  /\ Len(stack') = Len(stack) + 1
                  /\ Tail(Tail(stack')) = Tail(stack)
                  /\ stack'[1][1] = c[1] /\ stack'[1][2] = stack'[2][1] /\ stack'[2][2] = c[2]
                  /\ Span(stack'[1]) < Span(c)
                  /\ Span(stack'[2]) < Span(c)

\* C19: on every matrix the fill produces the traceback terminates: every simple
\* step and every branch of a bifurcation moves to a cell of strictly smaller
\* span, a call stops at the first cell whose score is 0, and the traceback, once
\* started, reaches the return of line 853.
C19_TracebackTerminates ==
    /\ [][TracebackStepShrinks]_vars
    /\ (rna_pc = "reconstruct") ~> (rna_pc = "done")

\* A traceback inside a branch of a bifurcation, at a cell with a non-zero score,
\* after it has already recorded a pair.
C19_Witness ==
    /\ rna_pc = "reconstruct"
    /\ Len(stack) >= 2
    /\ matrix[Head(stack)][1] > 0
    /\ structure # <<>>

\* _rna_structure_reconstruct_answer(matrix, i, j) as a function, lines 856-871.
RECURSIVE Reconstruct(_, _, _)
Reconstruct(mx, i, j) ==
    LET sc == mx[<<i, j>>]
    IN  IF sc[1] = 0 THEN <<>>
        ELSE IF Len(sc) = 3
        THEN (IF IsPairStep(sc, i, j) THEN <<<<i, j>>>> ELSE <<>>)
             \o Reconstruct(mx, NextCell(sc, i, j)[1], NextCell(sc, i, j)[2])
        ELSE Reconstruct(mx, sc[2], sc[3]) \o Reconstruct(mx, sc[4], sc[5])

\* C20: for n >= 1 the returned list has as many pairs as the score stored in
\* cell (0, n - 1) and no pair occurs in it twice; the traceback started at any
\* cell (i, j) returns exactly as many pairs as the score of that cell.
C20_PairCountIsScore ==
    rna_pc = "done" =>
        /\ rna_result[1] = Reconstruct(matrix, 0, Len(rna) - 1)
        /\ Len(rna_result[1]) = matrix[TopCell][1]
        /\ \A p \in 1..Len(rna_result[1]) : \A q \in 1..Len(rna_result[1]) :
              p # q => rna_result[1][p] # rna_result[1][q]
        /\ \A c \in DOMAIN matrix : Len(Reconstruct(matrix, c[1], c[2])) = matrix[c][1]

\* A finished call that returned two or more pairs, with a cell other than the
\* top-level one whose score is not 0.
C20_Witness ==
    /\ rna_pc = "done"
    /\ Len(rna_result[1]) >= 2
    /\ Len(rna_result[1]) = matrix[TopCell][1]
    /\ \E c \in DOMAIN matrix :
          c # TopCell /\ matrix[c][1] > 0 /\ Len(Reconstruct(matrix, c[1], c[2])) = matrix[c][1]

\* C21: the returned pairs never cross: of two returned pairs (a, b) and (c, d)
\* with a < c, either b <= c (the first ends where or before the second starts) or
\* d < b (the second is nested inside the first); a < c < b < d does not occur.
C21_NonCrossing ==
    rna_pc = "done" =>
        \A p \in 1..Len(rna_result[1]) : \A q \in 1..Len(rna_result[1]) :
            LET a == rna_result[1][p][1]
                b == rna_result[1][p][2]
                c == rna_result[1][q][1]
                d == rna_result[1][q][2]
            IN  /\ a < c => (b <= c \/ d < b)
                /\ ~(a < c /\ c < b /\ b < d)

\* A finished call that returned a pair nested inside another returned pair.
C21_Witness ==
    /\ rna_pc = "done"
    /\ \E p \in 1..Len(rna_result[1]) : \E q \in 1..Len(rna_result[1]) :
          /\ rna_result[1][p][1] < rna_result[1][q][1]
          /\ rna_result[1][q][2] < rna_result[1][p][2]

(* ========================== failure array ============================== *)
DnaLetters == {"A", "C"}

\* Python's s[a:b] for 0 <= a <= b <= len(s).
Slice(s, a, b) == SubSeq(s, a + 1, b)

\* The first value of prev in the inner loop of line 740: result[i - 1].
FirstPrev_short(res, i) == res[i] - 1

FirstPrev(res, i) == res[i]

\* The inner loop of lines 740-743 from prev downward: the value result[i] holds
\* after it (0 when no candidate matches and the loop runs out).
RECURSIVE ScanDown(_, _, _)
ScanDown(s, i, prev) ==
    IF prev < 0 THEN 0
    ELSE IF Slice(s, 0, prev + 1) = Slice(s, i - prev, i + 1) THEN prev + 1
    ELSE ScanDown(s, i, prev - 1)

FaInputs ==
    /\ dna \in SeqsUpTo(DnaLetters, MaxDnaLen)
    /\ result = <<>>
    /\ fa_i = 0
    /\ fa_pc = "start"

InitialTable_ones(len) == [k \in 1..len |-> 1]

\* [0] * len(dna) of line 738.
InitialTable(len) == [k \in 1..len |-> 0]

\* Line 738: result = [0] * len(dna); the outer loop starts at i = 1.
FaStart ==
    /\ fa_pc = "start"
    /\ result' = InitialTable(Len(dna))
    /\ fa_i' = 1
    /\ fa_pc' = "loop"
    /\ UNCHANGED dna
    /\ UNCHANGED <<rnaVars, alVars, triVars>>

\* One iteration of the outer loop, lines 739-743.
FaOuterStep ==
    /\ fa_pc = "loop"
    /\ fa_i < Len(dna)
    /\ result' = [result EXCEPT ![fa_i + 1] = ScanDown(dna, fa_i, FirstPrev(result, fa_i))]
    /\ fa_i' = fa_i + 1
    /\ UNCHANGED <<dna, fa_pc>>
    /\ UNCHANGED <<rnaVars, alVars, triVars>>

\* Line 744.
FaReturn ==
    /\ fa_pc = "loop"
    /\ fa_i >= Len(dna)
    /\ fa_pc' = "done"
    /\ UNCHANGED <<dna, result, fa_i>>
    /\ UNCHANGED <<rnaVars, alVars, triVars>>

NextFa ==
    \/ FaStart
    \/ FaOuterStep
    \/ FaReturn

(* --------------------- failure array: claims --------------------------- *)
\* The lengths l, 1 <= l <= k, for which s[k-l+1..k] equals s[0..l-1].
BorderLengths(s, k) ==
    {l \in 1..k : \A t \in 0..(l - 1) : s[(k - l + 1 + t) + 1] = s[t + 1]}

LongestBorder(s, k) ==
    IF BorderLengths(s, k) = {} THEN 0
    ELSE CHOOSE l \in BorderLengths(s, k) : \A l2 \in BorderLengths(s, k) : l2 <= l

\* C4: failure_array(s) returns P with P[0] = 0 and, for k >= 1, P[k] the
\* greatest l in 1..k such that s[k-l+1..k] = s[0..l-1], or 0 when there is none.
C4_LongestBorder ==
    fa_pc = "done" =>
        /\ Len(result) = Len(dna)
        /\ \A k \in 0..(Len(dna) - 1) :
              result[k + 1] = IF k = 0 THEN 0 ELSE LongestBorder(dna, k)

\* A finished table with an entry found only after the first candidate length
\* P[k-1] + 1 had failed: a border exists at k but it is not longer than at k - 1.
C4_Witness ==
    /\ fa_pc = "done"
    /\ \E k \in 1..(Len(dna) - 1) : result[k + 1] > 0 /\ result[k + 1] <= result[k]

\* C14: the table has exactly len(s) entries, P[0] = 0 when s is non-empty and
\* 0 <= P[k] <= k for every index k, in the returned table and in the partially
\* built table after every iteration of the outer loop.
C14_TableBounds ==
    fa_pc \in {"loop", "done"} =>
        /\ Len(result) = Len(dna)
        /\ Len(dna) > 0 => result[1] = 0
        /\ \A k \in 0..(Len(dna) - 1) : 0 <= result[k + 1] /\ result[k + 1] <= k

\* A partially built table, between two iterations of the outer loop, in which an
\* entry reaches its upper bound k and a later entry is still to be computed.
C14_Witness ==
    /\ fa_pc = "loop"
    /\ 1 < fa_i /\ fa_i < Len(dna)
    /\ \E k \in 1..(fa_i - 1) : result[k + 1] = k

(* ============================ alignment ================================ *)
(* align and edit_distance are in seq.py.  The scoring strategies they call *)
(* (alignments.NeedlemanWunsch, alignments.Levinshtein) are modelled from   *)
(* the description of the four strategy operations: initialize, fill_cell,  *)
(* extract_score and reconstruct.                                           *)
AlignLetters == {"A", "C"}
GapSymbol == "-"

Lower == [c \in AlignLetters \cup {"a", "c", GapSymbol} |->
    CASE c = "A" -> "a" [] c = "C" -> "c" [] OTHER -> c]

Upper == [c \in AlignLetters \cup {"a", "c", GapSymbol} |->
    CASE c = "a" -> "A" [] c = "c" -> "C" [] OTHER -> c]

\* Scores a NeedlemanWunsch strategy is built with.  gap_start is 0: the strategy
\* description fixes no rule for charging a non-zero gap_start inside the matrix.
Scores == {-1, 0, 1}
GapStarts == {0}

NeedlemanWunsch(match_score, mismatch_score, gap_score, gap_start) ==
    [kind |-> "NeedlemanWunsch", match_score |-> match_score,
     mismatch_score |-> mismatch_score, gap_score |-> gap_score, gap_start |-> gap_start]

\* Unit costs, 0 for equal symbols, minimised.
Levinshtein ==
    [kind |-> "Levinshtein", match_score |-> 0, mismatch_score |-> 1,
     gap_score |-> 1, gap_start |-> 0]

Methods ==
    {NeedlemanWunsch(ma, mi, g, gs) : ma \in Scores, mi \in Scores, g \in Scores, gs \in GapStarts}
    \cup {Levinshtein}

\* Boundary value at distance k from the corner: the gap-open cost once, then linear.
BoundaryValue(m, k) == IF k = 0 THEN 0 ELSE m.gap_start + k * m.gap_score

\* initialize: a (len(seq2)+1) x (len(seq1)+1) matrix with row 0 and column 0 set.
init_distance_matrix(m, s1, s2) ==
    [c \in (0..Len(s2)) \X (0..Len(s1)) |->
        IF c[1] = 0 THEN BoundaryValue(m, c[2])
        ELSE IF c[2] = 0 THEN BoundaryValue(m, c[1])
        ELSE 0]

Substitution(m, a, b) == IF a = b THEN m.match_score ELSE m.mismatch_score

Min2(x, y) == IF x <= y THEN x ELSE y

\* Needleman-Wunsch maximises, Levenshtein minimises.
Best3(m, x, y, z) ==
    IF m.kind = "Levinshtein" THEN Min2(x, Min2(y, z)) ELSE Max2(x, Max2(y, z))

DiagonalMove(m, s1, s2, dist, i, j) ==
    dist[<<i - 1, j - 1>>] + Substitution(m, s1[j], s2[i])

VerticalMove(m, dist, i, j) == dist[<<i - 1, j>>] + m.gap_score

HorizontalMove(m, dist, i, j) == dist[<<i, j - 1>>] + m.gap_score

\* fill_cell: the best of the three candidate moves into (i, j).
calculate_distance(m, s1, s2, dist, i, j) ==
    [dist EXCEPT ![<<i, j>>] = Best3(m, DiagonalMove(m, s1, s2, dist, i, j),
                                     VerticalMove(m, dist, i, j),
                                     HorizontalMove(m, dist, i, j))]

\* extract_score: the bottom-right cell.
ExtractScore(dist, s1, s2) == dist[<<Len(s2), Len(s1)>>]

\* The move the traceback takes out of (i, j): the first of diagonal, vertical,
\* horizontal that reproduces the recorded value; on a boundary the only move left.
TracebackMove(m, s1, s2, dist, i, j) ==
    IF i > 0 /\ j > 0 /\ dist[<<i, j>>] = DiagonalMove(m, s1, s2, dist, i, j) THEN "diagonal"
    ELSE IF i > 0 /\ (j = 0 \/ dist[<<i, j>>] = VerticalMove(m, dist, i, j)) THEN "vertical"
    ELSE "horizontal"

\* One column of the result, as the doctests of align show it: with
\* swap_case_on_mismatch the symbol of the second string is lower-cased wherever
\* the two symbols of the column differ; the first string is left as it is.
RenderColumn_firstsymbol(c1, c2, swap) ==
    IF swap /\ c1 # c2 THEN <<c1, Lower[c1]>> ELSE <<c1, c2>>

RenderColumn_both(c1, c2, swap) ==
    IF swap /\ c1 # c2 THEN <<Lower[c1], Lower[c2]>> ELSE <<c1, c2>>

RenderColumn(c1, c2, swap) ==
    IF swap /\ c1 # c2 THEN <<c1, Lower[c2]>> ELSE <<c1, c2>>

\* reconstruct: the two aligned strings for the path from (0, 0) to (i, j).
RECURSIVE reconstruct_answer_from(_, _, _, _, _, _, _)
reconstruct_answer_from(m, s1, s2, dist, swap, i, j) ==
    IF i = 0 /\ j = 0 THEN <<<<>>, <<>>>>
    ELSE
        LET mv == TracebackMove(m, s1, s2, dist, i, j)
            pi == IF mv = "horizontal" THEN i ELSE i - 1
            pj == IF mv = "vertical" THEN j ELSE j - 1
            col == RenderColumn(IF mv = "vertical" THEN GapSymbol ELSE s1[j],
                                IF mv = "horizontal" THEN GapSymbol ELSE s2[i], swap)
            before == reconstruct_answer_from(m, s1, s2, dist, swap, pi, pj)
        IN  <<Append(before[1], col[1]), Append(before[2], col[2])>>

\* The (i, j) values of line 619 in the order itertools.product yields them:
\* i outer over 1..len(seq2), j inner over 1..len(seq1).
LastColumn_short(s1) == Len(s1) - 1

LastColumn(s1) == Len(s1)

InProduct(s1, s2, i, j) == i \in 1..Len(s2) /\ j \in 1..LastColumn(s1)

NextInProduct_jouter(s1, s2, i, j) ==
    IF i + 1 <= Len(s2) THEN <<i + 1, j>> ELSE <<1, j + 1>>

NextInProduct(s1, s2, i, j) ==
    IF j + 1 <= LastColumn(s1) THEN <<i, j + 1>> ELSE <<i + 1, 1>>

\* al_calls lists the calls align has made on the strategy, in order: the operation,
\* the cell it was called for, and the matrix it was handed.
AlInputs ==
    /\ entry \in {"align", "edit_distance"}
    /\ seq1 \in SeqsUpTo(AlignLetters, MaxSeqLen)
    /\ seq2 \in SeqsUpTo(AlignLetters, MaxSeqLen)
    /\ reconstruct_answer \in BOOLEAN
    /\ IF entry = "edit_distance"
       THEN method = Levinshtein /\ swap_case_on_mismatch = TRUE
       ELSE method \in Methods /\ swap_case_on_mismatch \in BOOLEAN
    /\ distances = <<>> /\ al_i = 0 /\ al_j = 0 /\ score = 0
    /\ al_result = <<>> /\ al_pc = "start" /\ al_calls = <<>>

\* Line 618 (reached from edit_distance through line 635).
AlignInit ==
    /\ al_pc = "start"
    /\ distances' = init_distance_matrix(method, seq1, seq2)
    /\ al_i' = 1 /\ al_j' = 1
    /\ al_pc' = "fill"
    /\ al_calls' = Append(al_calls, <<"init_distance_matrix", 0, 0, distances>>)
    /\ UNCHANGED <<entry, seq1, seq2, method, reconstruct_answer, swap_case_on_mismatch,
                   score, al_result>>
    /\ UNCHANGED <<rnaVars, faVars, triVars>>

\* One iteration of the loop of lines 619-620.
AlignFillCell ==
    /\ al_pc = "fill"
    /\ InProduct(seq1, seq2, al_i, al_j)
    /\ distances' = calculate_distance(method, seq1, seq2, distances, al_i, al_j)
    /\ al_i' = NextInProduct(seq1, seq2, al_i, al_j)[1]
    /\ al_j' = NextInProduct(seq1, seq2, al_i, al_j)[2]
    /\ al_calls' = Append(al_calls, <<"calculate_distance", al_i, al_j, distances>>)
    /\ UNCHANGED <<entry, seq1, seq2, method, reconstruct_answer, swap_case_on_mismatch,
                   score, al_result, al_pc>>
    /\ UNCHANGED <<rnaVars, faVars, triVars>>

\* Line 621.
AlignScore ==
    /\ al_pc = "fill"
    /\ ~InProduct(seq1, seq2, al_i, al_j)
    /\ score' = ExtractScore(distances, seq1, seq2)
    /\ al_pc' = "scored"
    /\ al_calls' = Append(al_calls, <<"score", 0, 0, distances>>)
    /\ UNCHANGED <<entry, seq1, seq2, method, reconstruct_answer, swap_case_on_mismatch,
                   distances, al_i, al_j, al_result>>
    /\ UNCHANGED <<rnaVars, faVars, triVars>>

\* Lines 622-625.  al_result lists what is returned: <<score>> for the bare
\* score, <<aligned pair, score>> for the tuple of line 623.
AlignReturn ==
    /\ al_pc = "scored"
    /\ al_result' =
          IF reconstruct_answer
          THEN <<reconstruct_answer_from(method, seq1, seq2, distances,
                                         swap_case_on_mismatch, Len(seq2), Len(seq1)), score>>
          ELSE <<score>>
    /\ al_pc' = "done"
    /\ UNCHANGED <<entry, seq1, seq2, method, reconstruct_answer, swap_case_on_mismatch,
                   distances, al_i, al_j, score, al_calls>>
    /\ UNCHANGED <<rnaVars, faVars, triVars>>

NextAl ==
    \/ AlignInit
    \/ AlignFillCell
    \/ AlignScore
    \/ AlignReturn

(* ----------------------- alignment: claims ----------------------------- *)
\* The two reconstructed strings and the score of a call that returned the tuple.
Aligned1 == al_result[1][1]
Aligned2 == al_result[1][2]

Degap(a) == SelectSeq(a, LAMBDA c : c # GapSymbol)

UpperSeq(a) == [k \in 1..Len(a) |-> Upper[a[k]]]

IsLower(c) == c \in {"a", "c"}

GapColumn(k) == Aligned1[k] = GapSymbol \/ Aligned2[k] = GapSymbol

MismatchColumn(k) == ~GapColumn(k) /\ Upper[Aligned1[k]] # Upper[Aligned2[k]]

MatchColumn(k) == ~GapColumn(k) /\ Upper[Aligned1[k]] = Upper[Aligned2[k]]

\* The strings one insertion, deletion or substitution away from s.
OneEdit(s) ==
    {[k \in 1..(Len(s) - 1) |-> IF k < d THEN s[k] ELSE s[k + 1]] : d \in 1..Len(s)}
    \cup {[s EXCEPT ![k] = c] : k \in 1..Len(s), c \in AlignLetters}
    \cup {[k \in 1..(Len(s) + 1) |-> IF k < p THEN s[k] ELSE IF k = p THEN c ELSE s[k - 1]] :
            p \in 1..(Len(s) + 1), c \in AlignLetters}

RECURSIVE WithinEdits(_, _)
WithinEdits(s, n) ==
    IF n = 0 THEN {s}
    ELSE LET prev == WithinEdits(s, n - 1)
         IN  prev \cup UNION {OneEdit(t) : t \in prev}

\* The minimum number of single-symbol edits that transform a into b.
LevenshteinDistance(a, b) ==
    CHOOSE n \in 0..(Len(a) + Len(b)) :
        /\ b \in WithinEdits(a, n)
        /\ n > 0 => b \notin WithinEdits(a, n - 1)

\* C5: edit_distance with its default arguments returns the score only, and the
\* score is the Levenshtein distance of the two strings.
C5_EditDistance ==
    (al_pc = "done" /\ entry = "edit_distance" /\ ~reconstruct_answer) =>
        al_result = <<LevenshteinDistance(seq1, seq2)>>

\* A default edit_distance call between strings of different length, distance 2.
C5_Witness ==
    /\ al_pc = "done" /\ entry = "edit_distance" /\ ~reconstruct_answer
    /\ Len(seq1) # Len(seq2)
    /\ al_result = <<2>>

SelfAlignment ==
    /\ al_pc = "done" /\ entry = "align" /\ reconstruct_answer
    /\ method.kind = "NeedlemanWunsch"
    /\ seq1 = seq2
    /\ method.mismatch_score <= method.match_score

SelfAlignmentResult ==
    /\ al_result[2] = Len(seq1) * method.match_score
    /\ \A k \in 1..Len(Aligned1) : ~GapColumn(k)

ColumnScore(k) ==
    IF GapColumn(k) THEN method.gap_score
    ELSE IF MatchColumn(k) THEN method.match_score
    ELSE method.mismatch_score

RECURSIVE ColumnSum(_)
ColumnSum(k) == IF k = 0 THEN 0 ELSE ColumnSum(k - 1) + ColumnScore(k)

C9_AlignmentShape ==
    (al_pc = "done" /\ reconstruct_answer) =>
        /\ Len(Aligned1) = Len(Aligned2)
        /\ UpperSeq(Degap(Aligned1)) = seq1
        /\ UpperSeq(Degap(Aligned2)) = seq2
        /\ \A k \in 1..Len(Aligned1) : ~(Aligned1[k] = GapSymbol /\ Aligned2[k] = GapSymbol)

\* A reconstructed alignment with a gap and a lower-cased symbol.
C9_Witness ==
    /\ al_pc = "done" /\ reconstruct_answer /\ swap_case_on_mismatch
    /\ \E k \in 1..Len(Aligned1) : GapColumn(k)
    /\ \E k \in 1..Len(Aligned2) : IsLower(Aligned2[k])

\* C10 as stated: with swap_case_on_mismatch, a column where both sequences
\* advanced and the symbols differ shows both characters in lower case, and a
\* column of equal symbols keeps the case of both.
C10_BothLower ==
    (al_pc = "done" /\ reconstruct_answer /\ swap_case_on_mismatch) =>
        \A k \in 1..Len(Aligned1) :
            /\ MismatchColumn(k) => IsLower(Aligned1[k]) /\ IsLower(Aligned2[k])
            /\ MatchColumn(k) => ~IsLower(Aligned1[k]) /\ ~IsLower(Aligned2[k])

\* C10 (amended): in such a column the character of the second sequence is in
\* lower case and the character of the first keeps its case; a column of equal
\* symbols keeps the case of both.
C10_SecondLower ==
    (al_pc = "done" /\ reconstruct_answer /\ swap_case_on_mismatch) =>
        \A k \in 1..Len(Aligned1) :
            /\ MismatchColumn(k) => ~IsLower(Aligned1[k]) /\ IsLower(Aligned2[k])
            /\ MatchColumn(k) => ~IsLower(Aligned1[k]) /\ ~IsLower(Aligned2[k])

\* A reconstructed alignment with a mismatch column and a match column.
C10_Witness ==
    /\ al_pc = "done" /\ reconstruct_answer /\ swap_case_on_mismatch
    /\ \E k \in 1..Len(Aligned1) : MismatchColumn(k)
    /\ \E k \in 1..Len(Aligned1) : MatchColumn(k)

\* The k-th pair, k >= 1, of product(range(1, len(seq2) + 1), range(1, len(seq1) + 1)).
RowMajor(k) == <<((k - 1) \div Len(seq1)) + 1, ((k - 1) % Len(seq1)) + 1>>

\* The cells fill_cell reads to compute (i, j).
NeighbourCells(i, j) == {<<i - 1, j - 1>>, <<i - 1, j>>, <<i, j - 1>>}

\* C15: init_distance_matrix is called exactly once and first; calculate_distance
\* is then called exactly once for each (i, j), 1 <= i <= len(seq2),
\* 1 <= j <= len(seq1), i outer and j inner; the score is read only after the last
\* fill; and whenever (i, j) is filled the cells (i-1, j-1), (i-1, j), (i, j-1)
\* already hold the value they have from then on, none of them being filled later.
C15_CallOrder ==
    LET cells == Len(seq2) * Len(seq1)
        op(p) == al_calls[p][1]
        cell(p) == <<al_calls[p][2], al_calls[p][3]>>
        before(p) == al_calls[p][4]
    IN  /\ al_pc = "start" => al_calls = <<>>
        /\ al_pc = "fill" => Len(al_calls) \in 1..(cells + 1)
        /\ al_pc \in {"scored", "done"} => Len(al_calls) = cells + 2
        /\ \A p \in 1..Len(al_calls) :
              /\ op(p) = "init_distance_matrix" <=> p = 1
              /\ op(p) = "calculate_distance" <=> p \in 2..(cells + 1)
              /\ op(p) = "score" <=> p = cells + 2
              /\ op(p) = "calculate_distance" =>
                    /\ cell(p) = RowMajor(p - 1)
                    /\ \A c \in NeighbourCells(cell(p)[1], cell(p)[2]) :
                          /\ before(p)[c] = distances[c]
                          /\ \A q \in p..Len(al_calls) :
                                op(q) = "calculate_distance" => cell(q) # c
        /\ al_pc \in {"scored", "done"} => score = distances[<<Len(seq2), Len(seq1)>>]

\* A finished call on two sequences of two symbols each: four fills in two rows.
C15_Witness ==
    /\ al_pc = "done"
    /\ Len(seq1) >= 2 /\ Len(seq2) >= 2
    /\ Len(al_calls) = Len(seq1) * Len(seq2) + 2
    /\ al_calls[3][1] = "calculate_distance" /\ al_calls[3][2] = 1 /\ al_calls[3][3] = 2

(* ------------------ edit_distance as a function ------------------------ *)
\* The matrix after the loop of lines 619-620 has run from (i, j) to its end.
RECURSIVE FillFrom(_, _, _, _, _, _)
FillFrom(m, s1, s2, dist, i, j) ==
    IF ~InProduct(s1, s2, i, j) THEN dist
    ELSE FillFrom(m, s1, s2, calculate_distance(m, s1, s2, dist, i, j),
                  NextInProduct(s1, s2, i, j)[1], NextInProduct(s1, s2, i, j)[2])

\* align(seq1, seq2, reconstruct_answer=False, method): lines 618-621 and 625.
AlignScoreOnly(m, s1, s2) ==
    ExtractScore(FillFrom(m, s1, s2, init_distance_matrix(m, s1, s2), 1, 1), s1, s2)

\* edit_distance(str1, str2) with its default arguments, line 635.
edit_distance(str1, str2) == AlignScoreOnly(Levinshtein, str1, str2)

\* A caller that measures three strings pairwise.
TriInputs ==
    /\ str_a \in SeqsUpTo(AlignLetters, MaxTriLen)
    /\ str_b \in SeqsUpTo(AlignLetters, MaxTriLen)
    /\ str_c \in SeqsUpTo(AlignLetters, MaxTriLen)
    /\ d_ab = 0 /\ d_bc = 0 /\ d_ac = 0
    /\ tri_pc = "ab"

EditDistanceAB ==
    /\ tri_pc = "ab"
    /\ d_ab' = edit_distance(str_a, str_b)
    /\ tri_pc' = "bc"
    /\ UNCHANGED <<str_a, str_b, str_c, d_bc, d_ac>>
    /\ UNCHANGED <<rnaVars, faVars, alVars>>

EditDistanceBC ==
    /\ tri_pc = "bc"
    /\ d_bc' = edit_distance(str_b, str_c)
    /\ tri_pc' = "ac"
    /\ UNCHANGED <<str_a, str_b, str_c, d_ab, d_ac>>
    /\ UNCHANGED <<rnaVars, faVars, alVars>>

EditDistanceAC ==
    /\ tri_pc = "ac"
    /\ d_ac' = edit_distance(str_a, str_c)
    /\ tri_pc' = "done"
    /\ UNCHANGED <<str_a, str_b, str_c, d_ab, d_bc>>
    /\ UNCHANGED <<rnaVars, faVars, alVars>>

NextTri ==
    \/ EditDistanceAB
    \/ EditDistanceBC
    \/ EditDistanceAC

\* C6: edit_distance(a, c) <= edit_distance(a, b) + edit_distance(b, c).
C6_Triangle == tri_pc = "done" => d_ac <= d_ab + d_bc

\* Three different strings for which the inequality is tight.
C6_Witness ==
    /\ tri_pc = "done"
    /\ d_ab > 0 /\ d_bc > 0
    /\ d_ac = d_ab + d_bc

NextRna ==
    \/ RnaStart
    \/ RnaFillCell
    \/ RnaCallReconstruct
    \/ RnaReconstructStep
    \/ RnaReturn

InitRna == RnaInputs /\ FaIdle /\ AlIdle /\ TriIdle

SpecRna == InitRna /\ [][NextRna]_vars

\* The call is sequential code: a step that can be taken is taken.
SpecRnaFair == InitRna /\ [][NextRna]_vars /\ WF_vars(NextRna)

InitFa == FaInputs /\ RnaIdle /\ AlIdle /\ TriIdle

SpecFa == InitFa /\ [][NextFa]_vars

InitAl == AlInputs /\ RnaIdle /\ FaIdle /\ TriIdle

SpecAl == InitAl /\ [][NextAl]_vars

InitTri == TriInputs /\ RnaIdle /\ FaIdle /\ AlIdle

SpecTri == InitTri /\ [][NextTri]_vars

====
